---- MODULE Spec2Model ----
(***************************************************************************)
(* Model of acl's stream quantization                                      *)
(* (includes/acl/compression/stream/quantize_streams.h): the by-format and *)
(* by-bit-rate fixed quantizers, their batch drivers, the variable bit     *)
(* rate search of quantize_variable_streams and the quantize_streams entry *)
(* point.                                                                  *)
(*                                                                         *)
(* Samples are not modelled as bytes: a track stream records the sequence  *)
(* of packings that were applied to its raw float samples, so two streams  *)
(* hold the same bytes exactly when their records are equal.               *)
(***************************************************************************)
EXTENDS Integers, Sequences, FiniteSets, TLC

\* ---------------------------------------------------------------- bounds
MaxBones == 2
MaxSamples == 2
MaxErr == 1
MaxContribution == 1
HIGHEST_BIT_RATE == 2

\* ------------------------------------------------------------- constants
LOWEST_BIT_RATE == 0
INVALID_BONE_INDEX == 65535
DEFAULT_BIT_RATE == 0
\* std::numeric_limits<float>::max(): above every measurable error
FLT_MAX == MaxErr + 1

RotationFormat8 == {"Quat_128", "QuatDropW_96", "QuatDropW_48", "QuatDropW_32", "QuatDropW_Variable"}
VectorFormat8 == {"Vector3_96", "Vector3_48", "Vector3_32", "Vector3_Variable"}
TrackKinds == {"default", "constant", "animated"}
Errors == 0..MaxErr
Contributions == 0..MaxContribution
ErrorThresholds == (0..(MaxErr - 1)) \cup {FLT_MAX}

\* ------------------------------------------------------- format helpers
is_rotation_format_variable(rotation_format) == rotation_format = "QuatDropW_Variable"

is_vector_format_variable(vector_format) == vector_format = "Vector3_Variable"

get_rotation_variant(rotation_format) == IF rotation_format = "Quat_128" THEN "Quat" ELSE "QuatDropW"

get_highest_variant_precision(variant) == IF variant = "Quat" THEN "Quat_128" ELSE "QuatDropW_96"

get_packed_rotation_size(rotation_format) ==
    CASE rotation_format = "Quat_128" -> 16
      [] rotation_format = "QuatDropW_96" -> 12
      [] rotation_format = "QuatDropW_48" -> 6
      [] rotation_format = "QuatDropW_32" -> 4
      [] OTHER -> 0

get_packed_vector_size(vector_format) ==
    CASE vector_format = "Vector3_96" -> 12
      [] vector_format = "Vector3_48" -> 6
      [] vector_format = "Vector3_32" -> 4
      [] OTHER -> 0

\* ---------------------------------------------------------- track streams
\* TrackStream(allocator, num_samples, sample_size, sample_rate, format, bit_rate)
TrackStream(num_samples, sample_size, format, bit_rate, packed) ==
    [num_samples |-> num_samples, sample_size |-> sample_size, format |-> format,
     bit_rate |-> bit_rate, packed |-> packed]

\* a raw stream: one Vector4_32 (16 bytes) per sample, nothing packed yet
RawStream(num_samples, format) == TrackStream(num_samples, 16, format, DEFAULT_BIT_RATE, <<>>)

\* ---------------------------------------------------- fixed quantizers
\* by format, rotation
quantize_fixed_rotation_stream(raw_stream, rotation_format) ==
    TrackStream(raw_stream.num_samples, get_packed_rotation_size(rotation_format), rotation_format,
                DEFAULT_BIT_RATE, Append(raw_stream.packed, <<rotation_format, DEFAULT_BIT_RATE>>))

\* mutant: the by-format rotation quantizer does not check the sample size
rotation_format_ensures_no_size_check(raw_stream, rotation_format) ==
    IF raw_stream.num_samples > 0 /\ is_rotation_format_variable(rotation_format)
    THEN {"Invalid or unsupported rotation format"} ELSE {}

\* the ACL_ENSUREs of the by-format rotation quantizer that fail
rotation_format_ensures(raw_stream, rotation_format) ==
    (IF raw_stream.sample_size # 16 THEN {"Unexpected rotation sample size"} ELSE {})
    \cup (IF raw_stream.num_samples > 0 /\ is_rotation_format_variable(rotation_format)
          THEN {"Invalid or unsupported rotation format"} ELSE {})

\* mutant: the bit rate is not handed to the stream's constructor
quantize_variable_rotation_stream_no_bit_rate(raw_stream, bit_rate) ==
    TrackStream(raw_stream.num_samples, 8, "QuatDropW_Variable", DEFAULT_BIT_RATE,
                Append(raw_stream.packed, <<"QuatDropW_Variable", bit_rate>>))

\* by bit rate, rotation
quantize_variable_rotation_stream(raw_stream, bit_rate) ==
    TrackStream(raw_stream.num_samples, 8, "QuatDropW_Variable", bit_rate,
                Append(raw_stream.packed, <<"QuatDropW_Variable", bit_rate>>))

rotation_bit_rate_ensures(raw_stream) ==
    IF raw_stream.sample_size # 16 THEN {"Unexpected rotation sample size"} ELSE {}

\* by format, translation
quantize_fixed_translation_stream(raw_stream, translation_format) ==
    TrackStream(raw_stream.num_samples, get_packed_vector_size(translation_format), translation_format,
                DEFAULT_BIT_RATE, Append(raw_stream.packed, <<translation_format, DEFAULT_BIT_RATE>>))

translation_format_ensures(raw_stream, translation_format) ==
    (IF raw_stream.sample_size # 16 THEN {"Unexpected translation sample size"} ELSE {})
    \cup (IF raw_stream.format # "Vector3_96" THEN {"Expected a Vector3_96 vector format"} ELSE {})
    \cup (IF raw_stream.num_samples > 0 /\ is_vector_format_variable(translation_format)
          THEN {"Invalid or unsupported vector format"} ELSE {})

\* by bit rate, translation
quantize_variable_translation_stream(raw_stream, bit_rate) ==
    TrackStream(raw_stream.num_samples, 8, "Vector3_Variable", bit_rate,
                Append(raw_stream.packed, <<"Vector3_Variable", bit_rate>>))

translation_bit_rate_ensures(raw_stream) ==
    (IF raw_stream.sample_size # 16 THEN {"Unexpected translation sample size"} ELSE {})
    \cup (IF raw_stream.format # "Vector3_96" THEN {"Expected a Vector3_96 vector format"} ELSE {})

\* ------------------------------------------------------ per-bone container
BoneStreams(rotations, rotation_kind, translations, translation_kind) ==
    [rotations |-> rotations, translations |-> translations,
     is_rotation_default |-> rotation_kind = "default",
     is_rotation_constant |-> rotation_kind = "constant",
     is_translation_default |-> translation_kind = "default",
     is_translation_constant |-> translation_kind = "constant"]

is_rotation_animated(bone_stream) == ~bone_stream.is_rotation_constant /\ ~bone_stream.is_rotation_default

is_translation_animated(bone_stream) == ~bone_stream.is_translation_constant /\ ~bone_stream.is_translation_default

\* number of samples of the first animated track, 0 when nothing is animated
RECURSIVE animated_num_samples_from(_, _)
animated_num_samples_from(streams, bone_index) ==
    IF bone_index >= Len(streams) THEN 0
    ELSE IF is_rotation_animated(streams[bone_index + 1]) THEN streams[bone_index + 1].rotations.num_samples
    ELSE IF is_translation_animated(streams[bone_index + 1]) THEN streams[bone_index + 1].translations.num_samples
    ELSE animated_num_samples_from(streams, bone_index + 1)

get_animated_num_samples(streams) == animated_num_samples_from(streams, 0)

\* ---------------------------------------------------------- batch drivers
\* Bone streams are a sequence; bone index b lives at position b + 1.
BoneIndices(streams) == 0..(Len(streams) - 1)

\* "Default tracks aren't quantized"
rotation_batch_targets(streams) == {b \in BoneIndices(streams) : ~streams[b + 1].is_rotation_default}

translation_batch_targets(streams) == {b \in BoneIndices(streams) : ~streams[b + 1].is_translation_default}

\* mutant: a constant track gets the variant's highest precision whatever the variant flag
fixed_rotation_format_constant_highest(bone_stream, rotation_format, is_variable_variant) ==
    IF bone_stream.is_rotation_constant
    THEN get_highest_variant_precision(get_rotation_variant(rotation_format))
    ELSE rotation_format

\* format a bone's rotation track gets from the by-format batch driver
fixed_rotation_format(bone_stream, rotation_format, is_variable_variant) ==
    IF is_variable_variant /\ bone_stream.is_rotation_constant
    THEN get_highest_variant_precision(get_rotation_variant(rotation_format))
    ELSE rotation_format

quantize_fixed_rotation_streams(streams, rotation_format, is_variable_variant) ==
    [i \in DOMAIN streams |->
        IF (i - 1) \in rotation_batch_targets(streams)
        THEN [streams[i] EXCEPT !.rotations =
                quantize_fixed_rotation_stream(@, fixed_rotation_format(streams[i], rotation_format, is_variable_variant))]
        ELSE streams[i]]

fixed_rotation_streams_ensures(streams, rotation_format, is_variable_variant) ==
    UNION {rotation_format_ensures(streams[b + 1].rotations,
                                   fixed_rotation_format(streams[b + 1], rotation_format, is_variable_variant))
           : b \in rotation_batch_targets(streams)}

\* mutant: the by-bit-rate batch pass packs constant tracks by bit rate too
quantize_variable_rotation_streams_constant_by_bit_rate(streams, bit_rate) ==
    [i \in DOMAIN streams |->
        IF (i - 1) \in rotation_batch_targets(streams)
        THEN [streams[i] EXCEPT !.rotations = quantize_variable_rotation_stream(@, bit_rate)]
        ELSE streams[i]]

quantize_variable_rotation_streams(streams, bit_rate) ==
    [i \in DOMAIN streams |->
        IF (i - 1) \in rotation_batch_targets(streams)
        THEN [streams[i] EXCEPT !.rotations =
                IF streams[i].is_rotation_constant
                THEN quantize_fixed_rotation_stream(@, get_highest_variant_precision("QuatDropW"))
                ELSE quantize_variable_rotation_stream(@, bit_rate)]
        ELSE streams[i]]

variable_rotation_streams_ensures(streams) ==
    UNION {IF streams[b + 1].is_rotation_constant
           THEN rotation_format_ensures(streams[b + 1].rotations, get_highest_variant_precision("QuatDropW"))
           ELSE rotation_bit_rate_ensures(streams[b + 1].rotations)
           : b \in rotation_batch_targets(streams)}

\* format a bone's translation track gets from the by-format batch driver
fixed_translation_format(bone_stream, translation_format) ==
    IF bone_stream.is_translation_constant THEN "Vector3_96" ELSE translation_format

quantize_fixed_translation_streams(streams, translation_format) ==
    [i \in DOMAIN streams |->
        IF (i - 1) \in translation_batch_targets(streams)
        THEN [streams[i] EXCEPT !.translations =
                quantize_fixed_translation_stream(@, fixed_translation_format(streams[i], translation_format))]
        ELSE streams[i]]

fixed_translation_streams_ensures(streams, translation_format) ==
    UNION {translation_format_ensures(streams[b + 1].translations,
                                      fixed_translation_format(streams[b + 1], translation_format))
           : b \in translation_batch_targets(streams)}

quantize_variable_translation_streams(streams, bit_rate) ==
    [i \in DOMAIN streams |->
        IF (i - 1) \in translation_batch_targets(streams)
        THEN [streams[i] EXCEPT !.translations =
                IF streams[i].is_translation_constant
                THEN quantize_fixed_translation_stream(@, "Vector3_96")
                ELSE quantize_variable_translation_stream(@, bit_rate)]
        ELSE streams[i]]

variable_translation_streams_ensures(streams) ==
    UNION {IF streams[b + 1].is_translation_constant
           THEN translation_format_ensures(streams[b + 1].translations, "Vector3_96")
           ELSE translation_bit_rate_ensures(streams[b + 1].translations)
           : b \in translation_batch_targets(streams)}

\* the (bone, track type) pairs a batch pass hands to a quantizer
batch_calls(targets, track_type) == {[bone |-> b, track_type |-> track_type] : b \in targets}

\* ------------------------------------------------------------------ state
VARIABLES
    pc,                   \* position in quantize_streams / quantize_variable_streams
    parent_index,         \* skeleton: parent_index[b + 1] of bone b
    rotation_format, translation_format,
    error_threshold,      \* clip.get_error_threshold()
    full_precision_ok,    \* the clip meets the threshold once every track is at full precision
    bone_streams,         \* the caller's array
    quantized_streams,    \* the working copy (<<>> while not allocated)
    num_samples,
    error,
    low_resolution_bones, \* bit set, as the set of bones whose bit is set
    sample_index, bad_bone_index,
    error_per_bone,
    diagnostics,          \* messages of the ACL_ENSUREs that failed
    iterations,           \* history: entries into the body of the search loop
    measured,             \* history: error_per_bone of each sample scanned in this iteration
    quantize_calls,       \* history: (bone, track type) pairs handed to a quantizer
    calls,                \* history: drivers run by quantize_streams, in order
    input_streams,        \* history: bone_streams on entry
    setup_streams,        \* history: the working copy when setup ended
    arena,                \* the arrays of quantize_variable_streams: live ones, deallocations
    per_stream_errors,    \* error_per_stream as last computed, where a specification tracks it
    metric,               \* the clip's error metric, where a specification fixes one
    local_pose,           \* sample held by raw_local_pose and lossy_local_pose, where tracked
    contribution_calls,   \* history: calculate_skeleton_error_contribution calls, where tracked
    replay                \* the second run of a replay, where a specification runs one

vars == <<pc, parent_index, rotation_format, translation_format, error_threshold, full_precision_ok,
          bone_streams, quantized_streams, num_samples, error, low_resolution_bones, sample_index,
          bad_bone_index, error_per_bone, diagnostics, iterations, measured,
          quantize_calls, calls, input_streams, setup_streams, arena, per_stream_errors, metric, local_pose,
          contribution_calls, replay>>

\* what only some specifications keep track of
probes == <<per_stream_errors, metric, local_pose, contribution_calls>>

inputs == <<parent_index, rotation_format, translation_format, error_threshold, full_precision_ok, input_streams>>

num_bones == Len(bone_streams)

Bones == 0..(num_bones - 1)

is_rotation_variable == is_rotation_format_variable(rotation_format)

is_translation_variable == is_vector_format_variable(translation_format)

NoContribution == [rotation |-> 0, translation |-> 0]

\* cap of the history counter: above every count the search can reach
MaxIterations == 2 * MaxBones * (HIGHEST_BIT_RATE - LOWEST_BIT_RATE) + MaxBones + 3

\* every skeleton of n bones in which parents come before their children
Skeletons(n) == {p \in [1..n -> (0..(n - 1)) \cup {INVALID_BONE_INDEX}] :
                    \A i \in 1..n : p[i] = INVALID_BONE_INDEX \/ p[i] < i - 1}

\* the raw streams of a clip: a default track has no sample, a constant track one
RawNumSamples(kind, clip_samples) ==
    CASE kind = "default" -> 0 [] kind = "constant" -> 1 [] OTHER -> clip_samples

RawBoneStreams(rotation_kind, translation_kind, clip_samples, raw_rotation_format) ==
    BoneStreams(RawStream(RawNumSamples(rotation_kind, clip_samples), raw_rotation_format), rotation_kind,
                RawStream(RawNumSamples(translation_kind, clip_samples), "Vector3_96"), translation_kind)

\* the arrays quantize_variable_streams allocates
Arrays == {"quantized_streams", "raw_local_pose", "lossy_local_pose", "error_per_bone",
           "error_per_stream", "low_resolution_bones"}

NoArrays == [live |-> {}, deallocations |-> [a \in Arrays |-> 0]]

allocate_type_array(heap, names) == [heap EXCEPT !.live = @ \cup names]

deallocate_type_array(heap, names) ==
    [live |-> heap.live \ names,
     deallocations |-> [a \in Arrays |-> heap.deallocations[a] + (IF a \in names THEN 1 ELSE 0)]]

\* no second run
NoReplay == [turn |-> "off", contributions |-> <<>>, parked |-> <<>>]

\* a clip, a skeleton, formats and raw bone streams, before quantize_streams is called
InitRun ==
    /\ pc = "start"
    /\ rotation_format \in RotationFormat8
    /\ translation_format \in VectorFormat8
    /\ error_threshold \in ErrorThresholds
    /\ full_precision_ok \in BOOLEAN
    /\ \E n \in 1..MaxBones :
         /\ parent_index \in Skeletons(n)
         /\ \E rk \in [1..n -> TrackKinds], tk \in [1..n -> TrackKinds] :
              bone_streams = [i \in 1..n |->
                  RawBoneStreams(rk[i], tk[i], MaxSamples,
                                 get_highest_variant_precision(get_rotation_variant(rotation_format)))]
    /\ input_streams = bone_streams
    /\ quantized_streams = <<>>
    /\ setup_streams = <<>>
    /\ num_samples = 0
    /\ error = 0
    /\ low_resolution_bones = {}
    /\ sample_index = 0
    /\ bad_bone_index = INVALID_BONE_INDEX
    /\ error_per_bone = <<>>
    /\ diagnostics = {}
    /\ iterations = 0
    /\ measured = <<>>
    /\ quantize_calls = {}
    /\ calls = <<>>
    /\ arena = NoArrays

NoProbes ==
    /\ metric = <<>>
    /\ local_pose = <<>>
    /\ contribution_calls = <<>>

Init ==
    /\ InitRun
    /\ per_stream_errors = <<>>
    /\ NoProbes
    /\ replay = NoReplay

\* ------------------------------------------------------- quantize_streams
\* mutant: the dispatch asks for both formats to be variable
use_variable_driver_both == is_rotation_variable /\ is_translation_variable

\* if (is_rotation_variable || is_translation_variable)
use_variable_driver == is_rotation_variable \/ is_translation_variable

\* neither format is variable: the two by-format batch passes, in place
QuantizeFixedStreams ==
    /\ pc = "start"
    /\ ~use_variable_driver
    /\ LET rotated == quantize_fixed_rotation_streams(bone_streams, rotation_format, FALSE)
       IN /\ bone_streams' = quantize_fixed_translation_streams(rotated, translation_format)
          /\ diagnostics' = diagnostics
                \cup fixed_rotation_streams_ensures(bone_streams, rotation_format, FALSE)
                \cup fixed_translation_streams_ensures(rotated, translation_format)
    /\ quantize_calls' = quantize_calls
            \cup batch_calls(rotation_batch_targets(bone_streams), "Rotation")
            \cup batch_calls(translation_batch_targets(bone_streams), "Translation")
    /\ calls' = calls \o <<"quantize_fixed_rotation_streams", "quantize_fixed_translation_streams">>
    /\ pc' = "done"
    /\ UNCHANGED <<inputs, arena, quantized_streams, num_samples, error, low_resolution_bones, sample_index,
                   bad_bone_index, error_per_bone, iterations, measured, setup_streams>>

\* -------------------------------------------- quantize_variable_streams
\* the working copy after "Quantize everything to the lowest bit rate of the same variant"
\* mutant: setup starts the variable rotation tracks at the highest bit rate
SetupRotations_highest_bit_rate(streams) ==
    IF is_rotation_variable
    THEN quantize_variable_rotation_streams(streams, HIGHEST_BIT_RATE)
    ELSE quantize_fixed_rotation_streams(streams, rotation_format, FALSE)

SetupRotations(streams) ==
    IF is_rotation_variable
    THEN quantize_variable_rotation_streams(streams, LOWEST_BIT_RATE)
    ELSE quantize_fixed_rotation_streams(streams, rotation_format, FALSE)

SetupTranslations(streams) ==
    IF is_translation_variable
    THEN quantize_variable_translation_streams(streams, LOWEST_BIT_RATE)
    ELSE quantize_fixed_translation_streams(streams, translation_format)

\* mutant: the bit set keeps what the memory it was given held
bitset_reset_skipped(bitset) == bitset

\* bitset_reset(low_resolution_bones, bitset_size, false)
bitset_reset(bitset) == {}

\* setup, but for the caller's array
SetupWorkingCopy ==
    /\ pc = "start"
    /\ use_variable_driver
    /\ LET duplicate == bone_streams
           rotated == SetupRotations(duplicate)
           working == SetupTranslations(rotated)
       IN /\ quantized_streams' = working
          /\ setup_streams' = working
          /\ diagnostics' = diagnostics
                \cup (IF is_rotation_variable
                      THEN variable_rotation_streams_ensures(duplicate)
                      ELSE fixed_rotation_streams_ensures(duplicate, rotation_format, FALSE))
                \cup (IF is_translation_variable
                      THEN variable_translation_streams_ensures(rotated)
                      ELSE fixed_translation_streams_ensures(rotated, translation_format))
          /\ quantize_calls' = quantize_calls
                \cup batch_calls(rotation_batch_targets(duplicate), "Rotation")
                \cup batch_calls(translation_batch_targets(rotated), "Translation")
    /\ num_samples' = get_animated_num_samples(bone_streams)
    /\ error' = FLT_MAX
    /\ low_resolution_bones' = bitset_reset(low_resolution_bones)
    /\ error_per_bone' = [b \in Bones |-> 0]
    /\ calls' = Append(calls, "quantize_variable_streams")
    /\ arena' = allocate_type_array(arena, Arrays)
    /\ pc' = "while"
    /\ UNCHANGED <<inputs, sample_index, bad_bone_index, iterations, measured>>

\* mutant: the working array is the caller's array, not a duplicate of it
SetupVariableStreams_no_duplicate == SetupWorkingCopy /\ bone_streams' = quantized_streams'

\* "Duplicate our streams", the batch passes on the duplicate, the scratch arrays
SetupVariableStreams == SetupWorkingCopy /\ UNCHANGED bone_streams

\* the bones from a bone up to its root, the bone itself first
RECURSIVE BoneChain(_)
BoneChain(bone_index) ==
    IF bone_index = INVALID_BONE_INDEX THEN <<>>
    ELSE <<bone_index>> \o BoneChain(parent_index[bone_index + 1])

ChainBones(bone_index) == {BoneChain(bone_index)[i] : i \in 1..Len(BoneChain(bone_index))}

\* the most precise stream the search is meant to give a track: HIGHEST_BIT_RATE for a
\* track set up at a bit rate, the stream of setup for every other track
FullPrecisionRotation(bone_index) ==
    IF is_rotation_format_variable(setup_streams[bone_index + 1].rotations.format)
    THEN quantize_variable_rotation_stream(input_streams[bone_index + 1].rotations, HIGHEST_BIT_RATE)
    ELSE setup_streams[bone_index + 1].rotations

FullPrecisionTranslation(bone_index) ==
    IF is_vector_format_variable(setup_streams[bone_index + 1].translations.format)
    THEN quantize_variable_translation_stream(input_streams[bone_index + 1].translations, HIGHEST_BIT_RATE)
    ELSE setup_streams[bone_index + 1].translations

RotationAtFullPrecision(bone_index) ==
    quantized_streams[bone_index + 1].rotations = FullPrecisionRotation(bone_index)

TranslationAtFullPrecision(bone_index) ==
    quantized_streams[bone_index + 1].translations = FullPrecisionTranslation(bone_index)

ChainAtFullPrecision(bone_index) ==
    \A c \in ChainBones(bone_index) : RotationAtFullPrecision(c) /\ TranslationAtFullPrecision(c)

\* calculate_skeleton_error: any error per bone, drawn anew for every sample scanned. A
\* bone's error depends on the tracks of its chain only, so on a clip that meets the
\* threshold at full precision a bone whose whole chain is at full precision is within
\* the threshold.
SkeletonErrors ==
    {e \in [Bones -> Errors] :
        full_precision_ok =>
            \A b \in Bones : ChainAtFullPrecision(b) => e[b] <= error_threshold}

\* calculate_skeleton_error_contribution: error_per_stream, any contribution per track of the
\* bad bone's chain (the entries of other bones are neither written nor read: kept at 0).
\* On a clip that meets the threshold at full precision the bad bone's excess comes from some
\* track of its chain that is not at full precision.
SkeletonErrorContributions(bone_index) ==
    {c \in [Bones -> [rotation : Contributions, translation : Contributions]] :
        /\ \A b \in Bones \ ChainBones(bone_index) : c[b] = NoContribution
        /\ full_precision_ok =>
             \E b \in ChainBones(bone_index) :
                \/ ~RotationAtFullPrecision(b) /\ c[b].rotation > 0
                \/ ~TranslationAtFullPrecision(b) /\ c[b].translation > 0}

\* while (error > error_threshold): enter the body
WhileEnter ==
    /\ pc = "while"
    /\ error > error_threshold
    /\ iterations < MaxIterations
    /\ error' = 0
    /\ bad_bone_index' = INVALID_BONE_INDEX
    /\ sample_index' = 0
    /\ iterations' = iterations + 1
    /\ measured' = <<>>
    /\ pc' = "scan"
    /\ UNCHANGED <<inputs, arena, bone_streams, quantized_streams, num_samples, low_resolution_bones,
                   error_per_bone, diagnostics, quantize_calls, calls, setup_streams>>

\* while (error > error_threshold): the condition is false
WhileExit ==
    /\ pc = "while"
    /\ ~(error > error_threshold)
    /\ pc' = "commit"
    /\ UNCHANGED <<inputs, arena, bone_streams, quantized_streams, num_samples, error, low_resolution_bones,
                   sample_index, bad_bone_index, error_per_bone, diagnostics,
                   iterations, measured, quantize_calls, calls, setup_streams>>

\* mutant: the break sits outside the test, so the scan of a sample stops at the first
\* bone over the threshold even when that bone is flagged
FirstBadBones_stops_at_flagged(errors) ==
    {b \in Bones : /\ errors[b] > error_threshold
                   /\ b \notin low_resolution_bones
                   /\ \A a \in Bones : a < b => ~(errors[a] > error_threshold)}

\* "Find first bone in the hierarchy that is above our threshold (root first)";
\* worst_clip_error is still error_threshold, since the scan stops at the first bone found
FirstBadBones(errors) ==
    {b \in Bones : errors[b] > error_threshold /\ b \notin low_resolution_bones}

\* mutant: the bone loop keeps the last bone found instead of breaking at the first
MinBone_last_found(S) == CHOOSE b \in S : \A o \in S : b >= o

MinBone(S) == CHOOSE b \in S : \A o \in S : b <= o

\* mutant: the sample loop ends after its first sample
ScanSampleFor_first_sample_only(errors) ==
    /\ pc = "scan"
    /\ sample_index < num_samples
    /\ error_per_bone' = errors
    /\ measured' = Append(measured, errors)
    /\ IF FirstBadBones(errors) # {}
       THEN /\ bad_bone_index' = MinBone(FirstBadBones(errors))
            /\ error' = errors[MinBone(FirstBadBones(errors))]
            /\ sample_index' = sample_index
            /\ pc' = "blame"
       ELSE /\ sample_index' = num_samples
            /\ UNCHANGED <<bad_bone_index, error, pc>>
    /\ UNCHANGED <<inputs, arena, bone_streams, quantized_streams, num_samples, low_resolution_bones,
                   diagnostics, iterations, quantize_calls, calls, setup_streams>>

\* mutant: the bone found is kept but its error is not written to error
ScanSampleFor_error_not_recorded(errors) ==
    /\ pc = "scan"
    /\ sample_index < num_samples
    /\ error_per_bone' = errors
    /\ measured' = Append(measured, errors)
    /\ IF FirstBadBones(errors) # {}
       THEN /\ bad_bone_index' = MinBone(FirstBadBones(errors))
            /\ sample_index' = sample_index
            /\ pc' = "blame"
            /\ UNCHANGED error
       ELSE /\ sample_index' = sample_index + 1
            /\ UNCHANGED <<bad_bone_index, error, pc>>
    /\ UNCHANGED <<inputs, arena, bone_streams, quantized_streams, num_samples, low_resolution_bones,
                   diagnostics, iterations, quantize_calls, calls, setup_streams>>

\* one pass of the sample loop, calculate_skeleton_error answering errors
ScanSampleFor(errors) ==
    /\ pc = "scan"
    /\ sample_index < num_samples
    /\ error_per_bone' = errors
    /\ measured' = Append(measured, errors)
    /\ IF FirstBadBones(errors) # {}
       THEN /\ bad_bone_index' = MinBone(FirstBadBones(errors))
            /\ error' = errors[MinBone(FirstBadBones(errors))]
            /\ sample_index' = sample_index
            /\ pc' = "blame"
       ELSE /\ sample_index' = sample_index + 1
            /\ UNCHANGED <<bad_bone_index, error, pc>>
    /\ UNCHANGED <<inputs, arena, bone_streams, quantized_streams, num_samples, low_resolution_bones,
                   diagnostics, iterations, quantize_calls, calls, setup_streams>>

\* one pass of the sample loop, for any errors the metric may measure
ScanSample ==
    /\ pc = "scan"
    /\ \E errors \in SkeletonErrors : ScanSampleFor(errors)

\* the sample loop ran out with bad_bone_index == INVALID_BONE_INDEX: break
BreakNoBadBone ==
    /\ pc = "scan"
    /\ ~(sample_index < num_samples)
    /\ bad_bone_index = INVALID_BONE_INDEX
    /\ pc' = "commit"
    /\ UNCHANGED <<inputs, arena, bone_streams, quantized_streams, num_samples, error, low_resolution_bones,
                   sample_index, bad_bone_index, error_per_bone, diagnostics,
                   iterations, measured, quantize_calls, calls, setup_streams>>

\* mutant: the guard lets a track at HIGHEST_BIT_RATE be raised once more
can_increase_rotation_precision_inclusive(bone_index) ==
    is_rotation_variable /\ quantized_streams[bone_index + 1].rotations.bit_rate <= HIGHEST_BIT_RATE

\* "Only select the stream if we can still increase its precision"
can_increase_rotation_precision(bone_index) ==
    is_rotation_variable /\ quantized_streams[bone_index + 1].rotations.bit_rate < HIGHEST_BIT_RATE

\* mutant: the guard lets a translation track at HIGHEST_BIT_RATE be raised once more
can_increase_translation_precision_inclusive(bone_index) ==
    is_translation_variable /\ quantized_streams[bone_index + 1].translations.bit_rate <= HIGHEST_BIT_RATE

\* mutant: the guard does not test that the translation format is variable
can_increase_translation_precision_any_format(bone_index) ==
    quantized_streams[bone_index + 1].translations.bit_rate < HIGHEST_BIT_RATE

can_increase_translation_precision(bone_index) ==
    is_translation_variable /\ quantized_streams[bone_index + 1].translations.bit_rate < HIGHEST_BIT_RATE

NoTarget == [target_bone_index |-> INVALID_BONE_INDEX, target_track_type |-> "Rotation", worst_track_error |-> 0]

\* mutant: on equal contributions the track met last wins
ConsiderBone_last_wins(error_per_stream, current_bone_index, target) ==
    LET after_rotation ==
            IF can_increase_rotation_precision(current_bone_index)
               /\ error_per_stream[current_bone_index].rotation >= target.worst_track_error
               /\ error_per_stream[current_bone_index].rotation > 0
            THEN [target_bone_index |-> current_bone_index, target_track_type |-> "Rotation",
                  worst_track_error |-> error_per_stream[current_bone_index].rotation]
            ELSE target
    IN IF can_increase_translation_precision(current_bone_index)
          /\ error_per_stream[current_bone_index].translation >= after_rotation.worst_track_error
          /\ error_per_stream[current_bone_index].translation > 0
       THEN [target_bone_index |-> current_bone_index, target_track_type |-> "Translation",
             worst_track_error |-> error_per_stream[current_bone_index].translation]
       ELSE after_rotation

\* one pass of the walk up the chain: rotation first, then translation
ConsiderBone(error_per_stream, current_bone_index, target) ==
    LET after_rotation ==
            IF can_increase_rotation_precision(current_bone_index)
               /\ error_per_stream[current_bone_index].rotation > target.worst_track_error
            THEN [target_bone_index |-> current_bone_index, target_track_type |-> "Rotation",
                  worst_track_error |-> error_per_stream[current_bone_index].rotation]
            ELSE target
    IN IF can_increase_translation_precision(current_bone_index)
          /\ error_per_stream[current_bone_index].translation > after_rotation.worst_track_error
       THEN [target_bone_index |-> current_bone_index, target_track_type |-> "Translation",
             worst_track_error |-> error_per_stream[current_bone_index].translation]
       ELSE after_rotation

RECURSIVE WalkChain(_, _, _)
WalkChain(error_per_stream, current_bone_index, target) ==
    IF current_bone_index = INVALID_BONE_INDEX THEN target
    ELSE WalkChain(error_per_stream, parent_index[current_bone_index + 1],
                   ConsiderBone(error_per_stream, current_bone_index, target))

\* the target the walk ends with, for the contributions computed for the bad bone
SelectTarget(error_per_stream) == WalkChain(error_per_stream, bad_bone_index, NoTarget)

\* The body ends: its locals die. error_per_bone keeps its values in the code, but every
\* entry read later is written again first, so it is dropped here.
EndOfBody ==
    /\ pc' = "while"
    /\ bad_bone_index' = INVALID_BONE_INDEX
    /\ sample_index' = 0
    /\ measured' = <<>>
    /\ error_per_bone' = [b \in Bones |-> 0]

\* mutant: flagging a bone clears the bits set before
FlagLowResolutionBoneFor_clears_bits(contributions) ==
    /\ pc = "blame"
    /\ SelectTarget(contributions).target_bone_index = INVALID_BONE_INDEX
    /\ low_resolution_bones' = {bad_bone_index}
    /\ EndOfBody
    /\ UNCHANGED <<inputs, arena, bone_streams, quantized_streams, num_samples, error, diagnostics,
                   iterations, quantize_calls, calls, setup_streams>>

\* contributions computed, no target found: flag the bad bone and continue
FlagLowResolutionBoneFor(contributions) ==
    /\ pc = "blame"
    /\ SelectTarget(contributions).target_bone_index = INVALID_BONE_INDEX
    /\ low_resolution_bones' = low_resolution_bones \cup {bad_bone_index}
    /\ EndOfBody
    /\ UNCHANGED <<inputs, arena, bone_streams, quantized_streams, num_samples, error, diagnostics,
                   iterations, quantize_calls, calls, setup_streams>>

\* mutant: the target is requantized from the working copy's track, not the caller's
UpgradeRotationFor_from_working_copy(contributions) ==
    /\ pc = "blame"
    /\   LET target_bone_index == SelectTarget(contributions).target_bone_index
             new_bit_rate == (quantized_streams[target_bone_index + 1].rotations.bit_rate + 1) % 256
             raw_stream == quantized_streams[target_bone_index + 1].rotations
         IN /\ target_bone_index # INVALID_BONE_INDEX
            /\ SelectTarget(contributions).target_track_type = "Rotation"
            /\ quantized_streams' = [quantized_streams EXCEPT ![target_bone_index + 1].rotations =
                                        quantize_variable_rotation_stream(raw_stream, new_bit_rate)]
            /\ diagnostics' = diagnostics \cup rotation_bit_rate_ensures(raw_stream)
            /\ quantize_calls' = quantize_calls \cup {[bone |-> target_bone_index, track_type |-> "Rotation"]}
    /\ EndOfBody
    /\ UNCHANGED <<inputs, arena, bone_streams, num_samples, error, low_resolution_bones, iterations,
                   calls, setup_streams>>

\* contributions computed, the target is a rotation track: "Increase its bit rate a bit",
\* requantizing the caller's track into the working copy
UpgradeRotationFor(contributions) ==
    /\ pc = "blame"
    /\   LET target_bone_index == SelectTarget(contributions).target_bone_index
             new_bit_rate == (quantized_streams[target_bone_index + 1].rotations.bit_rate + 1) % 256
             raw_stream == bone_streams[target_bone_index + 1].rotations
         IN /\ target_bone_index # INVALID_BONE_INDEX
            /\ SelectTarget(contributions).target_track_type = "Rotation"
            /\ quantized_streams' = [quantized_streams EXCEPT ![target_bone_index + 1].rotations =
                                        quantize_variable_rotation_stream(raw_stream, new_bit_rate)]
            /\ diagnostics' = diagnostics \cup rotation_bit_rate_ensures(raw_stream)
            /\ quantize_calls' = quantize_calls \cup {[bone |-> target_bone_index, track_type |-> "Rotation"]}
    /\ EndOfBody
    /\ UNCHANGED <<inputs, arena, bone_streams, num_samples, error, low_resolution_bones, iterations,
                   calls, setup_streams>>

\* contributions computed, the target is a translation track
UpgradeTranslationFor(contributions) ==
    /\ pc = "blame"
    /\   LET target_bone_index == SelectTarget(contributions).target_bone_index
             new_bit_rate == (quantized_streams[target_bone_index + 1].translations.bit_rate + 1) % 256
             raw_stream == bone_streams[target_bone_index + 1].translations
         IN /\ target_bone_index # INVALID_BONE_INDEX
            /\ SelectTarget(contributions).target_track_type = "Translation"
            /\ quantized_streams' = [quantized_streams EXCEPT ![target_bone_index + 1].translations =
                                        quantize_variable_translation_stream(raw_stream, new_bit_rate)]
            /\ diagnostics' = diagnostics \cup translation_bit_rate_ensures(raw_stream)
            /\ quantize_calls' = quantize_calls \cup {[bone |-> target_bone_index, track_type |-> "Translation"]}
    /\ EndOfBody
    /\ UNCHANGED <<inputs, arena, bone_streams, num_samples, error, low_resolution_bones, iterations,
                   calls, setup_streams>>

\* the decisions, for any contributions the metric may compute
FlagLowResolutionBone ==
    \E contributions \in SkeletonErrorContributions(bad_bone_index) : FlagLowResolutionBoneFor(contributions)

UpgradeRotation ==
    \E contributions \in SkeletonErrorContributions(bad_bone_index) : UpgradeRotationFor(contributions)

UpgradeTranslation ==
    \E contributions \in SkeletonErrorContributions(bad_bone_index) : UpgradeTranslationFor(contributions)

\* mutant: the working copy is deallocated without the swap
Commit_without_swap ==
    /\ pc = "commit"
    /\ quantized_streams' = <<>>
    /\ arena' = deallocate_type_array(arena, Arrays)
    /\ pc' = "done"
    /\ UNCHANGED <<inputs, bone_streams, num_samples, error, low_resolution_bones, sample_index,
                   bad_bone_index, error_per_bone, diagnostics, iterations, measured,
                   quantize_calls, calls, setup_streams>>

\* "Swap our streams", then the working copy and the scratch arrays are deallocated
Commit ==
    /\ pc = "commit"
    /\ bone_streams' = quantized_streams
    /\ quantized_streams' = <<>>
    /\ arena' = deallocate_type_array(arena, Arrays)
    /\ pc' = "done"
    /\ UNCHANGED <<inputs, num_samples, error, low_resolution_bones, sample_index, bad_bone_index,
                   error_per_bone, diagnostics, iterations, measured,
                   quantize_calls, calls, setup_streams>>

\* error_per_stream is not tracked and there is no second run
Untracked == UNCHANGED <<probes, replay>>

Next ==
    \/ QuantizeFixedStreams /\ Untracked
    \/ SetupVariableStreams /\ Untracked
    \/ WhileEnter /\ Untracked
    \/ WhileExit /\ Untracked
    \/ ScanSample /\ Untracked
    \/ BreakNoBadBone /\ Untracked
    \/ FlagLowResolutionBone /\ Untracked
    \/ UpgradeRotation /\ Untracked
    \/ UpgradeTranslation /\ Untracked
    \/ Commit /\ Untracked

Spec == Init /\ [][Next]_vars

\* ------------------------------------------------------------------ replay
\* Two runs of quantize_variable_streams from the same clip, skeleton, formats and bone
\* streams, in step: one run takes a step, then the other run takes its step and is given
\* the answers of the metric the first run was given (the metric is a function of the poses
\* it is handed). The variables hold the run that is stepping, replay.parked the other one.
RunState ==
    [pc |-> pc, bone_streams |-> bone_streams, quantized_streams |-> quantized_streams,
     num_samples |-> num_samples, error |-> error, low_resolution_bones |-> low_resolution_bones,
     sample_index |-> sample_index, bad_bone_index |-> bad_bone_index,
     error_per_bone |-> error_per_bone, diagnostics |-> diagnostics, iterations |-> iterations,
     measured |-> measured, quantize_calls |-> quantize_calls, calls |-> calls,
     setup_streams |-> setup_streams, arena |-> arena]

\* the clips of the replay: one kind variable, or both kinds variable on a single bone
ReplayFormats(n) ==
    {<<"QuatDropW_Variable", "Vector3_48">>, <<"QuatDropW_48", "Vector3_Variable">>}
    \cup (IF n = 1 THEN {<<"QuatDropW_Variable", "Vector3_Variable">>} ELSE {})

\* the second run is handed memory that holds anything: its bit set starts with any content
InitReplay ==
    /\ InitRun
    /\ <<rotation_format, translation_format>> \in ReplayFormats(num_bones)
    /\ ~full_precision_ok
    /\ per_stream_errors = <<>>
    /\ NoProbes
    /\ \E stale \in SUBSET Bones :
          replay = [turn |-> "lead", contributions |-> <<>>,
                    parked |-> [RunState EXCEPT !.low_resolution_bones = stale]]

\* a step of the run that goes first; a decision leaves the contributions it was given
Leads(contributions) ==
    /\ replay.turn = "lead"
    /\ replay' = [replay EXCEPT !.turn = "switch", !.contributions = contributions]
    /\ UNCHANGED probes

\* a step of the run that goes second
Follows ==
    /\ replay.turn = "follow"
    /\ replay' = [replay EXCEPT !.turn = "lead", !.contributions = <<>>]
    /\ UNCHANGED probes

\* the run that stepped is parked, the other run is resumed
ReplaySwitch ==
    /\ replay.turn = "switch"
    /\ pc' = replay.parked.pc
    /\ bone_streams' = replay.parked.bone_streams
    /\ quantized_streams' = replay.parked.quantized_streams
    /\ num_samples' = replay.parked.num_samples
    /\ error' = replay.parked.error
    /\ low_resolution_bones' = replay.parked.low_resolution_bones
    /\ sample_index' = replay.parked.sample_index
    /\ bad_bone_index' = replay.parked.bad_bone_index
    /\ error_per_bone' = replay.parked.error_per_bone
    /\ diagnostics' = replay.parked.diagnostics
    /\ iterations' = replay.parked.iterations
    /\ measured' = replay.parked.measured
    /\ quantize_calls' = replay.parked.quantize_calls
    /\ calls' = replay.parked.calls
    /\ setup_streams' = replay.parked.setup_streams
    /\ arena' = replay.parked.arena
    /\ replay' = [replay EXCEPT !.turn = "follow", !.parked = RunState]
    /\ UNCHANGED <<inputs, probes>>

NextReplay ==
    \/ Leads(<<>>) /\ SetupVariableStreams
    \/ Leads(<<>>) /\ WhileEnter
    \/ Leads(<<>>) /\ WhileExit
    \/ Leads(<<>>) /\ ScanSample
    \/ Leads(<<>>) /\ BreakNoBadBone
    \/ \E contributions \in SkeletonErrorContributions(bad_bone_index) :
            Leads(contributions) /\ FlagLowResolutionBoneFor(contributions)
    \/ \E contributions \in SkeletonErrorContributions(bad_bone_index) :
            Leads(contributions) /\ UpgradeRotationFor(contributions)
    \/ \E contributions \in SkeletonErrorContributions(bad_bone_index) :
            Leads(contributions) /\ UpgradeTranslationFor(contributions)
    \/ Leads(<<>>) /\ Commit
    \/ ReplaySwitch
    \/ Follows /\ SetupVariableStreams
    \/ Follows /\ WhileEnter
    \/ Follows /\ WhileExit
    \/ Follows /\ ScanSample /\ error_per_bone' = replay.parked.error_per_bone
    \/ Follows /\ BreakNoBadBone
    \/ Follows /\ FlagLowResolutionBoneFor(replay.contributions)
    \/ Follows /\ UpgradeRotationFor(replay.contributions)
    \/ Follows /\ UpgradeTranslationFor(replay.contributions)
    \/ Follows /\ Commit

SpecReplay == InitReplay /\ [][NextReplay]_vars

\* ------------------------------------------------------- a second call
\* quantize_streams called again on the streams it returned (a programmer error: they are
\* not raw any more), and ACL_ENSURE: a build with the checks on terminates the process at
\* the first ACL_ENSURE that fails, a build with the checks off goes on. The build is the
\* same for a whole behaviour: once a failed ACL_ENSURE has been passed over
\* (diagnostics is not empty) no later one terminates.
EnsureOrder(message) ==
    CASE message \in {"Unexpected rotation sample size", "Unexpected translation sample size"} -> 1
      [] message = "Expected a Vector3_96 vector format" -> 2
      [] OTHER -> 3

\* the ACL_ENSURE of one call that fails first
first_ensure(messages) == {m \in messages : \A o \in messages : EnsureOrder(m) <= EnsureOrder(o)}

rotation_pass_ensures(streams) ==
    IF use_variable_driver /\ is_rotation_variable
    THEN variable_rotation_streams_ensures(streams)
    ELSE fixed_rotation_streams_ensures(streams, rotation_format, FALSE)

translation_pass_ensures(streams) ==
    IF use_variable_driver /\ is_translation_variable
    THEN variable_translation_streams_ensures(streams)
    ELSE fixed_translation_streams_ensures(streams, translation_format)

\* the ACL_ENSUREs a batch pass fails
pass_ensures(track_type, streams) ==
    IF track_type = "Rotation" THEN rotation_pass_ensures(streams) ELSE translation_pass_ensures(streams)

\* the bones whose call fails an ACL_ENSURE in a batch pass
failing_bones(track_type, streams) ==
    {b \in BoneIndices(streams) : pass_ensures(track_type, <<streams[b + 1]>>) # {}}

\* what the batch pass reports before the process terminates
first_batch_ensure(track_type, streams) ==
    IF failing_bones(track_type, streams) = {} THEN {}
    ELSE first_ensure(pass_ensures(track_type, <<streams[MinBone(failing_bones(track_type, streams)) + 1]>>))

\* the first ACL_ENSURE to fail in the two batch passes, the rotation pass going first
first_pass_ensure(streams) ==
    IF first_batch_ensure("Rotation", streams) # {}
    THEN first_batch_ensure("Rotation", streams)
    ELSE first_batch_ensure("Translation", streams)

\* The process terminates: its memory is not looked at any more, and the variables other
\* than pc, diagnostics and arena keep the values the step found.
Terminates ==
    /\ pc' = "aborted"
    /\ UNCHANGED <<inputs, bone_streams, quantized_streams, num_samples, error, low_resolution_bones,
                   sample_index, bad_bone_index, error_per_bone, iterations, measured,
                   quantize_calls, calls, setup_streams>>

\* the fixed path, an ACL_ENSURE of a batch pass terminating the process
QuantizeFixedStreamsAborts ==
    /\ pc = "start"
    /\ ~use_variable_driver
    /\ diagnostics = {}
    /\ first_pass_ensure(bone_streams) # {}
    /\ diagnostics' = first_pass_ensure(bone_streams)
    /\ Terminates
    /\ UNCHANGED arena

\* setup, an ACL_ENSURE of a batch pass terminating the process: the working copy is the
\* only array allocated by then
SetupVariableStreamsAborts ==
    /\ pc = "start"
    /\ use_variable_driver
    /\ diagnostics = {}
    /\ first_pass_ensure(bone_streams) # {}
    /\ diagnostics' = first_pass_ensure(bone_streams)
    /\ arena' = allocate_type_array(arena, {"quantized_streams"})
    /\ Terminates

\* the ACL_ENSUREs of the requantization of the target that fail
requantize_ensures(target) ==
    IF target.target_track_type = "Rotation"
    THEN rotation_bit_rate_ensures(bone_streams[target.target_bone_index + 1].rotations)
    ELSE translation_bit_rate_ensures(bone_streams[target.target_bone_index + 1].translations)

\* "Increase its bit rate a bit", an ACL_ENSURE of the quantizer terminating the process
RequantizeAborts ==
    /\ pc = "blame"
    /\ diagnostics = {}
    /\ \E contributions \in SkeletonErrorContributions(bad_bone_index) :
          /\ SelectTarget(contributions).target_bone_index # INVALID_BONE_INDEX
          /\ requantize_ensures(SelectTarget(contributions)) # {}
          /\ diagnostics' = first_ensure(requantize_ensures(SelectTarget(contributions)))
    /\ Terminates
    /\ UNCHANGED arena

OnePass == {<<"quantize_variable_streams">>,
            <<"quantize_fixed_rotation_streams", "quantize_fixed_translation_streams">>}

\* the caller hands the streams it got back to quantize_streams once more, with the same
\* formats, clip and skeleton; the histories start again for the new call
CallAgain ==
    /\ pc = "done"
    /\ calls \in OnePass
    /\ pc' = "start"
    /\ input_streams' = bone_streams
    /\ setup_streams' = <<>>
    /\ num_samples' = 0
    /\ error' = 0
    /\ low_resolution_bones' = {}
    /\ error_per_bone' = <<>>
    /\ diagnostics' = {}
    /\ iterations' = 0
    /\ quantize_calls' = {}
    /\ arena' = NoArrays
    /\ UNCHANGED <<parent_index, rotation_format, translation_format, error_threshold, full_precision_ok,
                   bone_streams, quantized_streams, sample_index, bad_bone_index, measured, calls>>

\* the search driver is called again on one-bone clips only
InitAgain ==
    /\ Init
    /\ ~full_precision_ok
    /\ use_variable_driver => num_bones = 1

NextAgain ==
    \/ Next
    \/ QuantizeFixedStreamsAborts /\ Untracked
    \/ SetupVariableStreamsAborts /\ Untracked
    \/ RequantizeAborts /\ Untracked
    \/ CallAgain /\ Untracked

SpecAgain == InitAgain /\ [][NextAgain]_vars

\* ------------------------------------------- the by-format quantizers alone
\* One call of a by-format single-stream quantizer on a raw track of the clip, with any
\* format, the variable one included; quantize_calls names the track it was called on.
CallQuantizeFixedRotationStream ==
    /\ pc = "start"
    /\ \E b \in Bones :
         /\ bone_streams' = [bone_streams EXCEPT ![b + 1].rotations =
                                quantize_fixed_rotation_stream(@, rotation_format)]
         /\ diagnostics' = diagnostics
                \cup rotation_format_ensures(bone_streams[b + 1].rotations, rotation_format)
         /\ quantize_calls' = batch_calls({b}, "Rotation")
    /\ calls' = Append(calls, "quantize_fixed_rotation_stream")
    /\ pc' = "called"
    /\ UNCHANGED <<inputs, arena, quantized_streams, num_samples, error, low_resolution_bones,
                   sample_index, bad_bone_index, error_per_bone, iterations, measured, setup_streams>>

CallQuantizeFixedTranslationStream ==
    /\ pc = "start"
    /\ \E b \in Bones :
         /\ bone_streams' = [bone_streams EXCEPT ![b + 1].translations =
                                quantize_fixed_translation_stream(@, translation_format)]
         /\ diagnostics' = diagnostics
                \cup translation_format_ensures(bone_streams[b + 1].translations, translation_format)
         /\ quantize_calls' = batch_calls({b}, "Translation")
    /\ calls' = Append(calls, "quantize_fixed_translation_stream")
    /\ pc' = "called"
    /\ UNCHANGED <<inputs, arena, quantized_streams, num_samples, error, low_resolution_bones,
                   sample_index, bad_bone_index, error_per_bone, iterations, measured, setup_streams>>

NextByFormat ==
    \/ CallQuantizeFixedRotationStream /\ Untracked
    \/ CallQuantizeFixedTranslationStream /\ Untracked

SpecByFormat == Init /\ [][NextByFormat]_vars

\* ================================================================ claims

\* most iterations the specification allows the search loop
IterationBound == 2 * num_bones * (HIGHEST_BIT_RATE - LOWEST_BIT_RATE) + num_bones

\* C1 as stated: the body of the search loop is entered at most
\* 2 * num_bones * (HIGHEST_BIT_RATE - LOWEST_BIT_RATE) + num_bones times.
C1_IterationBound == iterations <= IterationBound

\* C1 amended: the body of the search loop is entered at most
\* 2 * num_bones * (HIGHEST_BIT_RATE - LOWEST_BIT_RATE) + num_bones + 1 times: the last
\* entry is the scan that finds no bad bone and breaks.
C1_IterationBoundPlusBreak == iterations <= IterationBound + 1

\* every track raised to HIGHEST_BIT_RATE, every bone flagged, then the scan that breaks
C1_Witness ==
    /\ pc = "done"
    /\ num_bones = MaxBones
    /\ low_resolution_bones = Bones
    /\ iterations = IterationBound + 1

\* the error of a bone at a sample against the current working copy: the value the last
\* scan measured, the largest error there is for a sample that scan did not reach
WorstCaseError(sample, bone_index) ==
    IF sample + 1 <= Len(measured) THEN measured[sample + 1][bone_index] ELSE MaxErr

\* C2: when the search loop has exited, every bone at every sample is within the
\* threshold against the final working copy, or is flagged in low_resolution_bones.
C2_WithinThresholdOrFlagged ==
    pc = "commit" =>
        \A sample \in 0..(num_samples - 1), b \in Bones :
            WorstCaseError(sample, b) <= error_threshold \/ b \in low_resolution_bones

\* the loop was left after a full scan in which a flagged bone is over the threshold and
\* an unflagged bone is within it
C2_Witness ==
    /\ pc = "commit"
    /\ num_samples = MaxSamples
    /\ Len(measured) = num_samples
    /\ \E b \in low_resolution_bones : measured[num_samples][b] > error_threshold
    /\ \E b \in Bones \ low_resolution_bones : measured[num_samples][b] <= error_threshold

\* C3: on a clip that meets the threshold with every variable track at HIGHEST_BIT_RATE,
\* the search ends with every bone within the threshold at every sample and with no bit
\* set in low_resolution_bones.
C3_ThresholdRespectedWhenPossible ==
    (pc = "commit" /\ full_precision_ok) =>
        /\ low_resolution_bones = {}
        /\ \A sample \in 0..(num_samples - 1), b \in Bones :
                WorstCaseError(sample, b) <= error_threshold

\* sum of the bit-rate indices of every track of the working copy
RECURSIVE BitRateSumFrom(_, _)
BitRateSumFrom(streams, i) ==
    IF i > Len(streams) THEN 0
    ELSE streams[i].rotations.bit_rate + streams[i].translations.bit_rate + BitRateSumFrom(streams, i + 1)

BitRateSum(streams) == BitRateSumFrom(streams, 1)

\* C4: the steps of an iteration up to its decision leave the working copy and the bit
\* set alone, and the decision that continues the loop either raises the sum of the bit
\* rates of the working copy or sets exactly one new bit in low_resolution_bones.
C4_MonotoneUpgrade ==
    [][/\ (pc \in {"while", "scan"} /\ pc' \in {"scan", "blame"}) =>
              /\ quantized_streams' = quantized_streams
              /\ low_resolution_bones' = low_resolution_bones
       /\ (pc = "blame" /\ pc' = "while") =>
              \/ /\ BitRateSum(quantized_streams') > BitRateSum(quantized_streams)
                 /\ low_resolution_bones' = low_resolution_bones
              \/ /\ BitRateSum(quantized_streams') = BitRateSum(quantized_streams)
                 /\ low_resolution_bones \subseteq low_resolution_bones'
                 /\ Cardinality(low_resolution_bones' \ low_resolution_bones) = 1]_vars

\* the loop is about to run again after upgrades and a flagging
C4_Witness ==
    /\ pc = "while"
    /\ iterations >= 3
    /\ low_resolution_bones # {}
    /\ BitRateSum(quantized_streams) >= 2

\* C5: a track that is default on input is never handed to a quantizer, and on output
\* its flag and its samples are as on input.
C5_DefaultPreserved ==
    \A b \in Bones :
        /\ input_streams[b + 1].is_rotation_default =>
              /\ [bone |-> b, track_type |-> "Rotation"] \notin quantize_calls
              /\ pc = "done" =>
                    /\ bone_streams[b + 1].is_rotation_default
                    /\ bone_streams[b + 1].rotations = input_streams[b + 1].rotations
        /\ input_streams[b + 1].is_translation_default =>
              /\ [bone |-> b, track_type |-> "Translation"] \notin quantize_calls
              /\ pc = "done" =>
                    /\ bone_streams[b + 1].is_translation_default
                    /\ bone_streams[b + 1].translations = input_streams[b + 1].translations

HighestRotationFormat == get_highest_variant_precision(get_rotation_variant(rotation_format))

C7_ConstantTranslationFull ==
    pc = "done" =>
        \A b \in Bones :
            input_streams[b + 1].is_translation_constant =>
                bone_streams[b + 1].translations.format = "Vector3_96"

\* C8: from the end of setup until commit the constant tracks of the working copy keep
\* the format and the bit rate setup gave them.
C8_ConstantTracksUntouched ==
    pc \in {"while", "scan", "blame", "commit"} =>
        \A b \in Bones :
            /\ quantized_streams[b + 1].is_rotation_constant =>
                  /\ quantized_streams[b + 1].rotations.format = setup_streams[b + 1].rotations.format
                  /\ quantized_streams[b + 1].rotations.bit_rate = setup_streams[b + 1].rotations.bit_rate
            /\ quantized_streams[b + 1].is_translation_constant =>
                  /\ quantized_streams[b + 1].translations.format = setup_streams[b + 1].translations.format
                  /\ quantized_streams[b + 1].translations.bit_rate = setup_streams[b + 1].translations.bit_rate

\* C9: the variable driver runs exactly when one of the formats is variable; otherwise
\* the by-format batch pass runs once for rotations, once for translations, and the
\* search loop is never entered.
C9_Dispatch ==
    /\ (is_rotation_variable \/ is_translation_variable) =>
            (pc # "start" => calls = <<"quantize_variable_streams">>)
    /\ ~(is_rotation_variable \/ is_translation_variable) =>
            /\ iterations = 0
            /\ pc \in {"start", "done"}
            /\ pc = "done" =>
                  calls = <<"quantize_fixed_rotation_streams", "quantize_fixed_translation_streams">>

\* the fixed path has run on a clip with tracks to quantize, for a lower precision pair
C9_Witness ==
    /\ pc = "done"
    /\ rotation_format = "QuatDropW_32"
    /\ translation_format = "Vector3_48"
    /\ calls = <<"quantize_fixed_rotation_streams", "quantize_fixed_translation_streams">>
    /\ Cardinality(quantize_calls) = 2 * MaxBones

\* C10: inside quantize_variable_streams the caller's bone_streams[] is as on entry
\* until the final swap.
C10_CallerArrayUntouched ==
    (is_rotation_variable \/ is_translation_variable) =>
        (pc # "done" => bone_streams = input_streams)

\* the loop has exited after upgrades and a flagging, the swap is still to come
C10_Witness ==
    /\ pc = "commit"
    /\ low_resolution_bones # {}
    /\ BitRateSum(quantized_streams) >= 2
    /\ quantized_streams # bone_streams

SecondFixedPass ==
    /\ pc = "done"
    /\ calls = <<"quantize_fixed_rotation_streams", "quantize_fixed_translation_streams",
                 "quantize_fixed_rotation_streams", "quantize_fixed_translation_streams">>

SameLayout(stream, other) ==
    /\ stream.format = other.format
    /\ stream.sample_size = other.sample_size
    /\ stream.num_samples = other.num_samples

\* C12, as stated: the by-format batch quantizer called a second time with the same format
\* on its own output leaves every track as the first call left it.
C12_SecondCallLeavesTracks ==
    SecondFixedPass =>
        \A b \in Bones : /\ bone_streams[b + 1].rotations = input_streams[b + 1].rotations
                         /\ bone_streams[b + 1].translations = input_streams[b + 1].translations

\* C12, amended: the second call is a precondition violation. It reports the sample size
\* of every track it packs again that is not 16 bytes wide (every translation track, and
\* every rotation track unless the format is Quat_128) and the format of every animated
\* translation track packed to another format than Vector3_96 (a constant translation track
\* was packed as Vector3_96); a track keeps its format, sample size and
\* number of samples, a default track is not touched, and the bytes of the other tracks
\* are packed once more from samples that are not raw.
C12_SecondCallKeepsLayout ==
    SecondFixedPass =>
        /\ \A b \in Bones :
              /\ SameLayout(bone_streams[b + 1].rotations, input_streams[b + 1].rotations)
              /\ SameLayout(bone_streams[b + 1].translations, input_streams[b + 1].translations)
              /\ input_streams[b + 1].is_rotation_default
                    => bone_streams[b + 1].rotations = input_streams[b + 1].rotations
              /\ input_streams[b + 1].is_translation_default
                    => bone_streams[b + 1].translations = input_streams[b + 1].translations
        /\ "Unexpected rotation sample size" \in diagnostics
              <=> \E b \in Bones : /\ ~input_streams[b + 1].is_rotation_default
                                   /\ rotation_format # "Quat_128"
        /\ "Unexpected translation sample size" \in diagnostics
              <=> \E b \in Bones : ~input_streams[b + 1].is_translation_default
        /\ "Expected a Vector3_96 vector format" \in diagnostics
              <=> \E b \in Bones : /\ ~input_streams[b + 1].is_translation_default
                                   /\ ~input_streams[b + 1].is_translation_constant
                                   /\ translation_format # "Vector3_96"

C12_Witness ==
    /\ SecondFixedPass
    /\ rotation_format = "QuatDropW_48"
    /\ "Unexpected rotation sample size" \in diagnostics
    /\ \E b \in Bones : input_streams[b + 1].is_translation_default
    /\ \E b \in Bones : /\ ~input_streams[b + 1].is_rotation_default
                         /\ bone_streams[b + 1].rotations # input_streams[b + 1].rotations

\* C13, as stated: a by-format quantizer called with the variable format reports a
\* precondition violation for every raw track, whatever its number of samples.
C13_VariableFormatReported ==
    /\ (pc = "called" /\ calls = <<"quantize_fixed_rotation_stream">> /\ is_rotation_variable)
          => "Invalid or unsupported rotation format" \in diagnostics
    /\ (pc = "called" /\ calls = <<"quantize_fixed_translation_stream">> /\ is_translation_variable)
          => "Invalid or unsupported vector format" \in diagnostics

\* C14, as stated: when quantize_variable_streams has been left, by its return or by an
\* abort on a precondition violation, no array it allocated is still allocated and none
\* was deallocated twice; on return each of the six was deallocated once.
C14_EveryArrayDeallocatedOnce ==
    (pc \in {"done", "aborted"} /\ use_variable_driver) =>
        /\ arena.live = {}
        /\ \A a \in Arrays : arena.deallocations[a] <= 1
        /\ pc = "done" => \A a \in Arrays : arena.deallocations[a] = 1

TargetBones == 3
MaxTargetContribution == 2

VariableFormatPairs == {<<"QuatDropW_Variable", "Vector3_Variable">>,
                        <<"QuatDropW_Variable", "Vector3_48">>,
                        <<"QuatDropW_48", "Vector3_Variable">>}

\* the bit rates the tracks are drawn at: not raised yet, or raised as far as it goes
TargetBitRates == {LOWEST_BIT_RATE, HIGHEST_BIT_RATE}

TargetContributions(bone_index) ==
    {c \in [Bones -> [rotation : 0..MaxTargetContribution, translation : 0..MaxTargetContribution]] :
        \A b \in Bones \ ChainBones(bone_index) : c[b] = NoContribution}

\* the working copy after setup and the upgrades that brought its tracks to the bit rates
RaisedStreams(rotation_rates, translation_rates) ==
    [i \in DOMAIN bone_streams |->
        [SetupTranslations(SetupRotations(bone_streams))[i] EXCEPT
            !.rotations = IF is_rotation_variable
                          THEN quantize_variable_rotation_stream(bone_streams[i].rotations, rotation_rates[i])
                          ELSE @,
            !.translations = IF is_translation_variable
                             THEN quantize_variable_translation_stream(bone_streams[i].translations,
                                                                       translation_rates[i])
                             ELSE @]]

InitTarget ==
    /\ pc = "blame"
    /\ \E formats \in VariableFormatPairs :
          /\ rotation_format = formats[1]
          /\ translation_format = formats[2]
    /\ error_threshold = 0
    /\ full_precision_ok = FALSE
    /\ parent_index \in Skeletons(TargetBones)
    /\ bone_streams = [i \in 1..TargetBones |->
            RawBoneStreams("animated", "animated", MaxSamples,
                           get_highest_variant_precision(get_rotation_variant(rotation_format)))]
    /\ input_streams = bone_streams
    /\ setup_streams = SetupTranslations(SetupRotations(bone_streams))
    /\ \E rotation_rates \in [1..TargetBones -> IF is_rotation_variable THEN TargetBitRates ELSE {DEFAULT_BIT_RATE}],
          translation_rates \in [1..TargetBones -> IF is_translation_variable THEN TargetBitRates ELSE {DEFAULT_BIT_RATE}] :
            quantized_streams = RaisedStreams(rotation_rates, translation_rates)
    /\ num_samples = MaxSamples
    /\ low_resolution_bones = {}
    /\ sample_index = 0
    /\ bad_bone_index \in Bones
    /\ error_per_bone = [b \in Bones |-> IF b = bad_bone_index THEN MaxErr ELSE 0]
    /\ measured = <<error_per_bone>>
    /\ error = MaxErr
    /\ diagnostics = {}
    /\ iterations = BitRateSum(quantized_streams) + 1
    /\ quantize_calls = batch_calls(Bones, "Rotation") \cup batch_calls(Bones, "Translation")
    /\ calls = <<"quantize_variable_streams">>
    /\ arena = allocate_type_array(NoArrays, Arrays)
    /\ per_stream_errors \in TargetContributions(bad_bone_index)
    /\ NoProbes
    /\ replay = NoReplay

NextTarget ==
    \/ FlagLowResolutionBoneFor(per_stream_errors) /\ Untracked
    \/ UpgradeRotationFor(per_stream_errors) /\ Untracked
    \/ UpgradeTranslationFor(per_stream_errors) /\ Untracked

SpecTarget == InitTarget /\ [][NextTarget]_vars

\* the tracks of the bad bone's chain whose precision can still be raised, each with its
\* place in the walk: bad bone first, rotation before translation
Candidates ==
    {t \in (1..Len(BoneChain(bad_bone_index))) \X {"Rotation", "Translation"} :
        IF t[2] = "Rotation"
        THEN is_rotation_variable
             /\ quantized_streams[BoneChain(bad_bone_index)[t[1]] + 1].rotations.bit_rate < HIGHEST_BIT_RATE
        ELSE is_translation_variable
             /\ quantized_streams[BoneChain(bad_bone_index)[t[1]] + 1].translations.bit_rate < HIGHEST_BIT_RATE}

CandidateContribution(t) ==
    IF t[2] = "Rotation"
    THEN per_stream_errors[BoneChain(bad_bone_index)[t[1]]].rotation
    ELSE per_stream_errors[BoneChain(bad_bone_index)[t[1]]].translation

CandidateRank(t) == 2 * t[1] + (IF t[2] = "Rotation" THEN 0 ELSE 1)

\* the candidate of largest contribution, the one met first among equals
LargestCandidate ==
    CHOOSE t \in Candidates : \A o \in Candidates :
        \/ CandidateContribution(t) > CandidateContribution(o)
        \/ CandidateContribution(t) = CandidateContribution(o) /\ CandidateRank(t) <= CandidateRank(o)

C17_FlagOnlyTheBadBone ==
    [][/\ pc # "start" => low_resolution_bones \subseteq low_resolution_bones'
       /\ low_resolution_bones' # low_resolution_bones =>
              /\ pc = "blame"
              /\ pc' = "while"
              /\ bad_bone_index \notin low_resolution_bones
              /\ low_resolution_bones' = low_resolution_bones \cup {bad_bone_index}
              /\ quantized_streams' = quantized_streams
              /\ bone_streams' = bone_streams
       /\ (pc = "blame" /\ quantized_streams' = quantized_streams) =>
              /\ low_resolution_bones' = low_resolution_bones \cup {bad_bone_index}
              /\ pc' = "while"
       /\ pc' = "blame" => bad_bone_index' \notin low_resolution_bones']_vars

\* both bones of a clip have been flagged, one after the other
C17_Witness ==
    /\ pc = "while"
    /\ num_bones = 2
    /\ low_resolution_bones = {0, 1}
    /\ iterations >= 2

\* C18, as stated: a bone is flagged only when every animated track of a variable kind on
\* its chain is at HIGHEST_BIT_RATE.
C18_FlaggedOnlyAtHighest ==
    [][low_resolution_bones' # low_resolution_bones =>
        \A b \in ChainBones(bad_bone_index) :
            /\ (is_rotation_variable /\ is_rotation_animated(quantized_streams[b + 1]))
                  => quantized_streams[b + 1].rotations.bit_rate = HIGHEST_BIT_RATE
            /\ (is_translation_variable /\ is_translation_animated(quantized_streams[b + 1]))
                  => quantized_streams[b + 1].translations.bit_rate = HIGHEST_BIT_RATE]_vars

\* C19: a decision that changes the working copy changes one track of it: the track is
\* replaced by the caller's track of the same bone and kind, as handed to
\* quantize_streams, quantized at the track's bit rate plus one; the other tracks, the bit
\* set and the caller's array are as before.
C19_UpgradeRequantizesFromRaw ==
    [][(pc = "blame" /\ quantized_streams' # quantized_streams) =>
        /\ low_resolution_bones' = low_resolution_bones
        /\ bone_streams' = bone_streams
        /\ \E b \in Bones :
              \/ quantized_streams' = [quantized_streams EXCEPT ![b + 1].rotations =
                    quantize_variable_rotation_stream(input_streams[b + 1].rotations,
                                                      quantized_streams[b + 1].rotations.bit_rate + 1)]
              \/ quantized_streams' = [quantized_streams EXCEPT ![b + 1].translations =
                    quantize_variable_translation_stream(input_streams[b + 1].translations,
                                                         quantized_streams[b + 1].translations.bit_rate + 1)]]_vars

\* an animated rotation track has been raised twice, each time from the raw samples
C19_Witness ==
    /\ pc = "while"
    /\ is_rotation_animated(quantized_streams[1])
    /\ quantized_streams[1].rotations.bit_rate = LOWEST_BIT_RATE + 2
    /\ quantized_streams[1].rotations.packed = <<<<"QuatDropW_Variable", LOWEST_BIT_RATE + 2>>>>
    /\ input_streams[1].rotations.sample_size = 16

\* the loop condition is about to be evaluated for the first time
FirstEvaluation == pc = "while" /\ iterations = 0

\* C20: when the loop condition is evaluated for the first time, every animated track of
\* a variable kind is a variable-format stream at LOWEST_BIT_RATE, every animated track of
\* a kind that is not variable is in the format selected for the kind, and no bit of
\* low_resolution_bones is set.
C20_StateAtFirstEvaluation ==
    FirstEvaluation =>
        /\ low_resolution_bones = {}
        /\ \A b \in Bones :
              /\ is_rotation_animated(quantized_streams[b + 1]) =>
                    IF is_rotation_variable
                    THEN /\ quantized_streams[b + 1].rotations.format = "QuatDropW_Variable"
                         /\ quantized_streams[b + 1].rotations.bit_rate = LOWEST_BIT_RATE
                    ELSE quantized_streams[b + 1].rotations.format = rotation_format
              /\ is_translation_animated(quantized_streams[b + 1]) =>
                    IF is_translation_variable
                    THEN /\ quantized_streams[b + 1].translations.format = "Vector3_Variable"
                         /\ quantized_streams[b + 1].translations.bit_rate = LOWEST_BIT_RATE
                    ELSE quantized_streams[b + 1].translations.format = translation_format

\* two bones with animated tracks, rotations variable and translations not
C20_Witness ==
    /\ FirstEvaluation
    /\ num_bones = 2
    /\ is_rotation_variable
    /\ translation_format = "Vector3_48"
    /\ \A b \in Bones : /\ is_rotation_animated(quantized_streams[b + 1])
                         /\ is_translation_animated(quantized_streams[b + 1])
                         /\ quantized_streams[b + 1].translations.sample_size = 6

\* C21: every track of the working copy (and, after the swap, of the caller's array) in a
\* variable format has a bit rate from LOWEST_BIT_RATE to HIGHEST_BIT_RATE; no upgrade
\* goes above HIGHEST_BIT_RATE.
C21_BitRateInRange ==
    /\ \A i \in DOMAIN quantized_streams :
          /\ is_rotation_format_variable(quantized_streams[i].rotations.format)
                => quantized_streams[i].rotations.bit_rate \in LOWEST_BIT_RATE..HIGHEST_BIT_RATE
          /\ is_vector_format_variable(quantized_streams[i].translations.format)
                => quantized_streams[i].translations.bit_rate \in LOWEST_BIT_RATE..HIGHEST_BIT_RATE
    /\ \A i \in DOMAIN bone_streams :
          /\ is_rotation_format_variable(bone_streams[i].rotations.format)
                => bone_streams[i].rotations.bit_rate \in LOWEST_BIT_RATE..HIGHEST_BIT_RATE
          /\ is_vector_format_variable(bone_streams[i].translations.format)
                => bone_streams[i].translations.bit_rate \in LOWEST_BIT_RATE..HIGHEST_BIT_RATE

\* both tracks of a bone have been raised to HIGHEST_BIT_RATE and the bone, still over the
\* threshold, has been flagged instead of raised again
C21_Witness ==
    /\ pc = "while"
    /\ 0 \in low_resolution_bones
    /\ parent_index[1] = INVALID_BONE_INDEX
    /\ is_rotation_format_variable(quantized_streams[1].rotations.format)
    /\ is_vector_format_variable(quantized_streams[1].translations.format)
    /\ quantized_streams[1].rotations.bit_rate = HIGHEST_BIT_RATE
    /\ quantized_streams[1].translations.bit_rate = HIGHEST_BIT_RATE

\* --------------------------------------------------- a clip with its metric
\* One-bone clips with one variable kind and a metric fixed for the whole search: the
\* error of the bone is a function of the sample and of the bit rate of its track of the
\* variable kind (the only thing the search changes in the lossy pose), and the
\* contributions are a function of the sample whose poses the routine is handed.
MetricFormats == {<<"QuatDropW_Variable", "Vector3_48">>, <<"QuatDropW_48", "Vector3_Variable">>}

Samples == 0..(MaxSamples - 1)

Metrics ==
    [error : [LOWEST_BIT_RATE..HIGHEST_BIT_RATE -> [Samples -> Errors]],
     contribution : [Samples -> [rotation : Contributions, translation : Contributions]]]

\* the bit rate of the bone's track of the variable kind
variable_bit_rate(streams) ==
    IF is_rotation_variable THEN streams[1].rotations.bit_rate ELSE streams[1].translations.bit_rate

InitMetric ==
    /\ InitRun
    /\ num_bones = 1
    /\ <<rotation_format, translation_format>> \in MetricFormats
    /\ ~full_precision_ok
    /\ per_stream_errors = <<>>
    /\ replay = NoReplay
    /\ metric \in Metrics
    /\ local_pose = <<>>
    /\ contribution_calls = <<>>

\* mutant: the sample loop goes on sampling to the end of the clip after it found a bone
MeasuredScan_keeps_sampling ==
    /\ pc = "scan"
    /\ sample_index < num_samples
    /\ ScanSampleFor([b \in Bones |-> metric.error[variable_bit_rate(quantized_streams)][sample_index]])
    /\ local_pose' = num_samples - 1
    /\ UNCHANGED <<per_stream_errors, metric, contribution_calls, replay>>

\* sample_streams fills the two poses for the sample, calculate_skeleton_error measures them
MeasuredScan ==
    /\ pc = "scan"
    /\ sample_index < num_samples
    /\ ScanSampleFor([b \in Bones |-> metric.error[variable_bit_rate(quantized_streams)][sample_index]])
    /\ local_pose' = sample_index
    /\ UNCHANGED <<per_stream_errors, metric, contribution_calls, replay>>

\* calculate_skeleton_error_contribution is handed the two poses as they are
MeasuredContribution ==
    /\ pc = "blame"
    /\ contribution_calls' = Append(contribution_calls,
                                    [iteration |-> iterations, sample |-> local_pose,
                                     bad_bone_index |-> bad_bone_index])
    /\ per_stream_errors' = [b \in Bones |-> metric.contribution[local_pose]]
    /\ UNCHANGED <<metric, local_pose, replay>>

NextMetric ==
    \/ SetupVariableStreams /\ Untracked
    \/ WhileEnter /\ Untracked
    \/ WhileExit /\ Untracked
    \/ MeasuredScan
    \/ BreakNoBadBone /\ Untracked
    \/ MeasuredContribution /\ FlagLowResolutionBoneFor(per_stream_errors')
    \/ MeasuredContribution /\ UpgradeRotationFor(per_stream_errors')
    \/ MeasuredContribution /\ UpgradeTranslationFor(per_stream_errors')
    \/ Commit /\ Untracked

SpecMetric == InitMetric /\ [][NextMetric]_vars

\* the bit rates at which the bone is within the threshold at every sample
SufficientBitRates ==
    {r \in LOWEST_BIT_RATE..HIGHEST_BIT_RATE : \A s \in Samples : metric.error[r][s] <= error_threshold}

AllConstantBothVariable ==
    /\ use_variable_driver_both
    /\ \A i \in DOMAIN input_streams : /\ input_streams[i].is_rotation_constant
                                       /\ input_streams[i].is_translation_constant

\* C23, as stated: on a clip of constant tracks with both formats variable the output is
\* QuatDropW_96 rotations and Vector3_96 translations, and the body of the search loop is
\* never entered.
C23_ConstantClipZeroIterations ==
    (pc = "done" /\ AllConstantBothVariable) =>
        /\ \A b \in Bones : /\ bone_streams[b + 1].rotations.format = "QuatDropW_96"
                            /\ bone_streams[b + 1].translations.format = "Vector3_96"
        /\ iterations = 0

\* C23, amended: the output is QuatDropW_96 rotations and Vector3_96 translations, as set
\* up; for a finite threshold the body of the search loop is entered once (error starts
\* at FLT_MAX), scans no sample since there are none, finds no bad bone and breaks: no
\* track is raised and no bone flagged.
C23_ConstantClipOneEmptyIteration ==
    (pc = "done" /\ AllConstantBothVariable) =>
        /\ \A b \in Bones : /\ bone_streams[b + 1].rotations.format = "QuatDropW_96"
                            /\ bone_streams[b + 1].translations.format = "Vector3_96"
        /\ bone_streams = setup_streams
        /\ num_samples = 0
        /\ measured = <<>>
        /\ low_resolution_bones = {}
        /\ iterations = (IF error_threshold < FLT_MAX THEN 1 ELSE 0)

C23_Witness ==
    /\ pc = "done"
    /\ AllConstantBothVariable
    /\ num_bones = 2
    /\ error_threshold < FLT_MAX
    /\ iterations = 1
    /\ bone_streams[2].rotations.format = "QuatDropW_96"

\* C24: once the search loop has been left, by its condition or by the break, flagged
\* bones or not, the next step is the return: no precondition violation has been reported
\* by then, and the caller's array holds the working copy as the loop left it, bone for
\* bone.
C24_ReturnsWithWorkingCopy ==
    [][pc = "commit" =>
        /\ pc' = "done"
        /\ diagnostics' = {}
        /\ Len(bone_streams') = num_bones
        /\ \A b \in Bones : bone_streams'[b + 1] = quantized_streams[b + 1]]_vars

\* the driver returned with a flagged bone and a track raised
C24_Witness ==
    /\ pc = "done"
    /\ low_resolution_bones # {}
    /\ diagnostics = {}
    /\ \E b \in Bones : /\ bone_streams[b + 1].rotations.format = "QuatDropW_Variable"
                         /\ bone_streams[b + 1].rotations.bit_rate > LOWEST_BIT_RATE
                         /\ is_rotation_animated(bone_streams[b + 1])

\* the track of the variable kind of the one bone can be raised and is blamed at a sample
BlamedAt(sample) ==
    IF is_rotation_variable
    THEN can_increase_rotation_precision(0) /\ metric.contribution[sample].rotation > 0
    ELSE can_increase_translation_precision(0) /\ metric.contribution[sample].translation > 0

\* C25: an iteration that found a bad bone calls calculate_skeleton_error_contribution
\* once, at its decision, with the poses of the sample the scan stopped at, which is the
\* last sample measured, and for the bad bone; nothing else calls it. The decision follows
\* the contributions of that sample: a track is raised exactly when that sample blames a
\* track that can be raised.
C25_ContributionOfDetectionSample ==
    [][/\ pc # "blame" => contribution_calls' = contribution_calls
       /\ pc = "blame" =>
            /\ contribution_calls' = Append(contribution_calls,
                    [iteration |-> iterations, sample |-> sample_index, bad_bone_index |-> bad_bone_index])
            /\ sample_index = Len(measured) - 1
            /\ Len(contribution_calls) = iterations - 1
            /\ per_stream_errors' = [b \in Bones |-> metric.contribution[sample_index]]
            /\ quantized_streams' # quantized_streams <=> BlamedAt(sample_index)
            /\ low_resolution_bones' # low_resolution_bones <=> ~BlamedAt(sample_index)]_vars

\* two iterations decided on different samples of a clip whose samples blame differently:
\* the first on sample 1, raising the track, the second on sample 0, flagging the bone
C25_Witness ==
    /\ pc = "while"
    /\ Len(contribution_calls) = 2
    /\ contribution_calls[1].sample = 1
    /\ contribution_calls[2].sample = 0
    /\ variable_bit_rate(quantized_streams) = LOWEST_BIT_RATE + 1
    /\ low_resolution_bones = {0}

\* C26: with a finite threshold the loop condition error > error_threshold is true each
\* time it is evaluated, the first time and after every upgrade and every flagging, and
\* the loop is left only by the break of a scan that went through all samples and found
\* no unflagged bone over the threshold.
C26_LoopLeftOnlyByBreak ==
    /\ []((pc = "while" /\ error_threshold < FLT_MAX) => error > error_threshold)
    /\ [][(pc' = "commit" /\ error_threshold < FLT_MAX) =>
            /\ pc = "scan"
            /\ sample_index = num_samples
            /\ Len(measured) = num_samples
            /\ bad_bone_index = INVALID_BONE_INDEX
            /\ \A s \in 1..Len(measured) : FirstBadBones(measured[s]) = {}]_vars

\* the loop was left after at least one upgrade and one flagging, so the condition was
\* evaluated again after each kind of decision
C26_Witness ==
    /\ pc = "commit"
    /\ error_threshold < FLT_MAX
    /\ iterations >= 3
    /\ num_samples > 1
    /\ low_resolution_bones # {}
    /\ quantized_streams # setup_streams

\* the tracks of the kind whose format is not variable, one per bone
fixed_kind_tracks(streams) ==
    [i \in DOMAIN streams |-> IF is_rotation_variable THEN streams[i].translations ELSE streams[i].rotations]

\* C27: with exactly one of the two formats variable, no step of the search loop changes
\* a track of the other kind: from the end of setup on, every such track of the working
\* copy is the one setup produced, whatever the contributions are, and the commit hands
\* these tracks to the caller.
C27_FixedKindUntouched ==
    [][is_rotation_variable # is_translation_variable =>
        /\ pc \in {"while", "scan", "blame"} =>
              /\ fixed_kind_tracks(quantized_streams) = fixed_kind_tracks(setup_streams)
              /\ pc' # "done" => fixed_kind_tracks(quantized_streams') = fixed_kind_tracks(setup_streams)
        /\ pc = "commit" => fixed_kind_tracks(bone_streams') = fixed_kind_tracks(setup_streams)]_vars

\* the rotation track was raised in one iteration; in a later one the fixed translation
\* track was the only contributor: it stayed as setup left it and the bone was flagged
C27_Witness ==
    /\ pc = "while"
    /\ is_rotation_variable
    /\ ~is_translation_variable
    /\ per_stream_errors # <<>>
    /\ per_stream_errors[0].translation > per_stream_errors[0].rotation
    /\ low_resolution_bones = {0}
    /\ quantized_streams[1].rotations.bit_rate = LOWEST_BIT_RATE + 1
    /\ quantized_streams[1].translations = setup_streams[1].translations
    /\ quantized_streams[1].translations.format = "Vector3_48"

====
